---- MODULE Spec2Model ----
\* A model of package errctx: the KV store (kv.go), the error decorator, the
\* call-site marker and the KV bridges onto errors and contexts (errctx.go).
\*
\* Go maps are reference objects, so the model keeps a store of map objects
\* (one sequence for the decorators' ctx maps, one for KV maps) and every Go
\* value that is a map is a reference (an index) into it.  A map's content is a
\* partial function: a key is present iff it is in the DOMAIN, and a present
\* key may hold the nil value.
EXTENDS Integers, Sequences, FiniteSets, TLC

VARIABLES
    store,    \* the heap: [ctx |-> Seq of ctx maps, kv |-> Seq of KV maps]
    errs,     \* the error values the program holds
    ctxts,    \* the context.Context values the program holds
    held,     \* ids of the KV maps the caller holds a reference to
    last,     \* the last operation: its inputs as they were at the call, and its result
    passed,   \* ids of the caller's maps that were handed to ErrWithKV / CtxWithKV
    nwrites,  \* the number of in-place writes the caller has made
    pc,       \* concurrent model: each thread's position
    call,     \* concurrent model: each thread's operation and its arguments
    loc,      \* concurrent model: each thread's locals
    wlog      \* concurrent model: the map writes made so far

vars == <<store, errs, ctxts, held, last, passed, nwrites, pc, call, loc, wlog>>
seqVars == <<store, errs, ctxts, held, last, passed, nwrites>>
concVars == <<pc, call, loc, wlog>>

-----------------------------------------------------------------------------
\* Bounds of the model

MaxCtxMaps == 3     \* decorators are built while the ctx heap holds fewer maps
MaxKVMaps == 5      \* KV operations run while the KV heap holds fewer maps
MaxWrites == 1      \* in-place writes by the caller
MaxPairs == 2       \* key/value pairs in one Set call
MaxKVArgs == 2      \* KVs in one ErrWithKV / CtxWithKV call
MaxSkip == 2        \* the skip argument of MarkSkip

-----------------------------------------------------------------------------
\* Go values

\* interface{} values: nil, a string (a sequence of chunks), a KV (a reference)
Nil == [t |-> "nil"]
Str(s) == [t |-> "string", s |-> s]
KVRef(i) == [t |-> "KV", id |-> i]

\* context keys: a Go interface value is a dynamic type and a value, so
\* key(0), sourceKey(0) and kvKey(0) are three different keys
key(n) == [type |-> "key", v |-> n]
sourceKey(n) == [type |-> "sourceKey", v |-> n]
kvKey(n) == [type |-> "kvKey", v |-> n]

\* errors: nil, a plain error (errors.New returns a pointer: identity is the id),
\* or an errctx value
PlainErr(i) == [t |-> "plain", id |-> i]
ErrCtx(e, c) == [t |-> "errctx", err |-> e, ctx |-> c]
Msg == <<"foo", "bar">>
Bases == {PlainErr(i) : i \in DOMAIN Msg}

\* a Go map
EmptyMap == <<>>
Lookup(m, k) == IF k \in DOMAIN m THEN m[k] ELSE Nil
Put(m, k, v) == [x \in (DOMAIN m) \cup {k} |-> IF x = k THEN v ELSE m[x]]
Delete(m, k) == [x \in (DOMAIN m) \ {k} |-> m[x]]
\* for k, v := range src { dst[k] = v }
CopyInto(dst, src) ==
    [x \in (DOMAIN dst) \cup (DOMAIN src) |-> IF x \in DOMAIN src THEN src[x] ELSE dst[x]]

AllocKV(st, m) == [st |-> [st EXCEPT !.kv = Append(@, m)], ret |-> Len(st.kv) + 1]
AllocCtx(st, m) == [st |-> [st EXCEPT !.ctx = Append(@, m)], ret |-> Len(st.ctx) + 1]

-----------------------------------------------------------------------------
\* kv.go

\* func (kv KV) Copy() KV
Copy(st, id) == AllocKV(st, CopyInto(EmptyMap, st.kv[id]))

\* a Merge loop in which a key already copied is not overwritten
RECURSIVE MergeLoopLeftWins(_, _, _, _)
MergeLoopLeftWins(st, kv, kvs, i) ==
    IF i > Len(kvs) THEN kv
    ELSE MergeLoopLeftWins(st, CopyInto(st.kv[kvs[i]], kv), kvs, i + 1)

RECURSIVE MergeLoop(_, _, _, _)
MergeLoop(st, kv, kvs, i) ==
    IF i > Len(kvs) THEN kv
    ELSE MergeLoop(st, CopyInto(kv, st.kv[kvs[i]]), kvs, i + 1)

\* a Merge that hands back its only argument instead of copying it
MergeShared(st, kvs) ==
    IF Len(kvs) = 1 THEN [st |-> st, ret |-> kvs[1]]
    ELSE AllocKV(st, MergeLoop(st, EmptyMap, kvs, 1))

\* func Merge(kvs ...KV) KV
Merge(st, kvs) == AllocKV(st, MergeLoop(st, EmptyMap, kvs, 1))

\* func (kv KV) Set(k string, v interface{}) KV
KVSet(st, id, k, v) ==
    LET c == Copy(st, id)
    IN [st |-> [c.st EXCEPT !.kv[c.ret] = Put(@, k, v)], ret |-> c.ret]

-----------------------------------------------------------------------------
\* errctx.go: the decorator

\* func (ec errctx) Error() string ; a plain error renders its own message
RECURSIVE Message(_)
Message(err) == IF err.t = "errctx" THEN Message(err.err) ELSE <<Msg[err.id]>>

\* func (ec errctx) Unwrap() error
Unwrap(ec) == ec.err

\* func Base(err error) error
Base(err) == IF err.t = "errctx" THEN err.err ELSE err

\* an Is that compares the candidate itself only
IsDirectOnly(ec, err) == err = ec.err

\* func (ec errctx) Is(err error) bool
Is(ec, err) == err = ec.err \/ Base(err) = ec.err

\* a pair loop in which a key already present is not overwritten
RECURSIVE SetPairsFirstWins(_, _, _)
SetPairsFirstWins(m, kvs, i) ==
    IF i > Len(kvs) THEN m
    ELSE SetPairsFirstWins(IF kvs[i] \in DOMAIN m THEN m ELSE Put(m, kvs[i], kvs[i + 1]),
                           kvs, i + 2)

RECURSIVE SetPairs(_, _, _)
SetPairs(m, kvs, i) ==
    IF i > Len(kvs) THEN m
    ELSE SetPairs(Put(m, kvs[i], kvs[i + 1]), kvs, i + 2)

\* a Set that writes the pairs into the decorated input's own map
SetShared(st, err, kvs) ==
    IF err.t = "errctx"
    THEN [st |-> [st EXCEPT !.ctx[err.ctx] = SetPairs(@, kvs, 1)],
          ret |-> ErrCtx(Base(err), err.ctx)]
    ELSE LET a == AllocCtx(st, SetPairs(EmptyMap, kvs, 1))
         IN [st |-> a.st, ret |-> ErrCtx(Base(err), a.ret)]

\* a Set that wraps its input as it is, decorated or not
SetNested(st, err, kvs) ==
    LET inner == IF err.t = "errctx" THEN CopyInto(EmptyMap, st.ctx[err.ctx]) ELSE EmptyMap
        a == AllocCtx(st, SetPairs(inner, kvs, 1))
    IN [st |-> a.st, ret |-> ErrCtx(err, a.ret)]

\* func Set(err error, kvs ...interface{}) error
Set(st, err, kvs) ==
    LET inner == IF err.t = "errctx" THEN CopyInto(EmptyMap, st.ctx[err.ctx]) ELSE EmptyMap
        a == AllocCtx(st, SetPairs(inner, kvs, 1))
    IN [st |-> a.st, ret |-> ErrCtx(Base(err), a.ret)]

\* func Get(err error, k interface{}) interface{}
Get(st, err, k) == IF err.t # "errctx" THEN Nil ELSE Lookup(st.ctx[err.ctx], k)

-----------------------------------------------------------------------------
\* errctx.go: the call-site marker

\* A stack frame is a file path (its components) and a line; a stack lists the
\* frames from the innermost outwards.
Frame(f, l) == [file |-> f, line |-> l]
MarkFrame == Frame(<<"errctx", "errctx.go">>, "153")
MarkSkipFrame == Frame(<<"errctx", "errctx.go">>, "168")
ErrWithKVFrame == Frame(<<"errctx", "errctx.go">>, "204")

\* runtime.Caller(n): frame n of the stack whose frame 0 is the function calling it
Caller(stack, n) ==
    IF n >= 0 /\ n + 1 <= Len(stack)
    THEN [ok |-> TRUE, file |-> stack[n + 1].file, line |-> stack[n + 1].line]
    ELSE [ok |-> FALSE, file |-> <<>>, line |-> "0"]

\* path.Base: the last element of the path
PathBase(f) == IF Len(f) = 0 THEN <<".">> ELSE <<f[Len(f)]>>

\* fmt.Sprintf("%s:%d", file, line)
Sprintf(file, line) == file \o <<":", line>>

\* a MarkSkip without the check for an earlier mark
MarkSkipOverwrite(st, err, skip, callers) ==
    IF err = Nil THEN [st |-> st, ret |-> Nil]
    ELSE LET c == Caller(<<MarkSkipFrame>> \o callers, 1 + skip)
         IN IF ~c.ok THEN [st |-> st, ret |-> err]
            ELSE Set(st, err, <<sourceKey(0), Str(Sprintf(PathBase(c.file), c.line))>>)

\* func MarkSkip(err error, skip int) error ; callers[1] is the frame that called MarkSkip
MarkSkip(st, err, skip, callers) ==
    IF err = Nil THEN [st |-> st, ret |-> Nil]
    ELSE IF Get(st, err, sourceKey(0)) # Nil THEN [st |-> st, ret |-> err]
    ELSE LET c == Caller(<<MarkSkipFrame>> \o callers, 1 + skip)
         IN IF ~c.ok THEN [st |-> st, ret |-> err]
            ELSE Set(st, err, <<sourceKey(0), Str(Sprintf(PathBase(c.file), c.line))>>)

\* func Mark(err error) error
Mark(st, err, callers) == MarkSkip(st, err, 1, <<MarkFrame>> \o callers)

\* func Line(err error) (string, bool)
Line(st, err) ==
    IF err.t # "errctx" THEN [s |-> <<>>, ok |-> FALSE]
    ELSE LET v == Lookup(st.ctx[err.ctx], sourceKey(0))
         IN IF v.t = "string" THEN [s |-> v.s, ok |-> TRUE] ELSE [s |-> <<>>, ok |-> FALSE]

-----------------------------------------------------------------------------
\* errctx.go: the KV bridges

\* func ErrWithKV(err error, kvs ...KV) error
ErrWithKV(st, err, kvs, callers) ==
    IF err = Nil THEN [st |-> st, ret |-> Nil]
    ELSE LET m1 == Merge(st, kvs)
             existingKV == Get(m1.st, err, kvKey(0))
             m2 == IF existingKV # Nil THEN Merge(m1.st, <<existingKV.id, m1.ret>>) ELSE m1
             s == Set(m2.st, err, <<kvKey(0), KVRef(m2.ret)>>)
         IN MarkSkip(s.st, s.ret, 1, <<ErrWithKVFrame>> \o callers)

\* func ErrKV(err error) KV
ErrKV(st, err) ==
    IF err = Nil THEN AllocKV(st, EmptyMap)
    ELSE LET kvi == Get(st, err, kvKey(0))
             lit == IF kvi = Nil THEN AllocKV(st, EmptyMap) ELSE [st |-> st, ret |-> kvi.id]
             kv == KVSet(lit.st, lit.ret, "err", Str(Message(err)))
             line == Line(kv.st, err)
         IN IF line.ok /\ Lookup(kv.st.kv[kv.ret], "source") = Nil
            THEN KVSet(kv.st, kv.ret, "source", Str(line.s))
            ELSE kv

\* context.Context: the chain of WithValue links, the outermost first
Background == <<>>
WithValue(ctx, k, v) == Append(ctx, [key |-> k, val |-> v])

\* ctx.Value(k): the nearest link holding k
RECURSIVE Value(_, _)
Value(ctx, k) ==
    IF Len(ctx) = 0 THEN Nil
    ELSE IF ctx[Len(ctx)].key = k THEN ctx[Len(ctx)].val
    ELSE Value(SubSeq(ctx, 1, Len(ctx) - 1), k)

\* func CtxWithKV(ctx context.Context, kvs ...KV) context.Context
CtxWithKV(st, ctx, kvs) ==
    LET m1 == Merge(st, kvs)
        existingKV == Value(ctx, kvKey(0))
        m2 == IF existingKV # Nil THEN Merge(m1.st, <<existingKV.id, m1.ret>>) ELSE m1
    IN [st |-> m2.st, ret |-> WithValue(ctx, kvKey(0), KVRef(m2.ret))]

\* func CtxKV(ctx context.Context) KV
CtxKV(st, ctx) ==
    LET kv == Value(ctx, kvKey(0))
    IN IF kv = Nil THEN AllocKV(st, EmptyMap) ELSE [st |-> st, ret |-> kv.id]

-----------------------------------------------------------------------------
\* The inputs the caller draws from

CallerKeys == {key(0), key(1)}
SetVals == {Str(<<"a">>), Str(<<"b">>)}
SinglePairs == {<<k, v>> : k \in CallerKeys, v \in SetVals}

RECURSIVE PairSeqs(_)
PairSeqs(n) ==
    IF n = 0 THEN {<<>>}
    ELSE LET shorter == PairSeqs(n - 1)
         IN shorter \cup {s \o p : s \in {x \in shorter : Len(x) = 2 * (n - 1)},
                                  p \in SinglePairs}

KVKeys == {"a", "source"}
KVVals == {Str(<<"c">>), Nil}
DeleteKey == [t |-> "delete"]

RECURSIVE ArgSeqs(_, _)
ArgSeqs(S, n) ==
    IF n = 0 THEN {<<>>}
    ELSE LET shorter == ArgSeqs(S, n - 1)
         IN shorter \cup {Append(s, x) : s \in {y \in shorter : Len(y) = n - 1}, x \in S}

\* no KV, or one of the maps of S
UpToOne(S) == {<<>>} \cup {<<x>> : x \in S}

\* the call sites: main.go:10 calling directly, or util.go:20 called from main.go:10
MainFrame == Frame(<<"app", "main.go">>, "10")
UtilFrame == Frame(<<"app", "lib", "util.go">>, "20")
UserStacks == {<<MainFrame>>, <<UtilFrame, MainFrame>>}

\* the content of an error's ctx map, with every KV reference replaced by the
\* content of the map it refers to: everything Get can observe of the error
Deref(st, v) == IF v.t = "KV" THEN [t |-> "KV", m |-> st.kv[v.id]] ELSE v
CtxOf(st, err) ==
    IF err.t # "errctx" THEN EmptyMap
    ELSE [k \in DOMAIN st.ctx[err.ctx] |-> Deref(st, st.ctx[err.ctx][k])]
Contents(st, ids) == [i \in 1..Len(ids) |-> st.kv[ids[i]]]
Range(f) == {f[i] : i \in DOMAIN f}

NoCall == [op |-> "none"]
NoLast == [op |-> "none"]

\* the maps the caller built itself: KV{"a": "a"} and KV{"a": "b", "source": nil}
CallerStore ==
    [ctx |-> <<>>,
     kv |-> << [k \in {"a"} |-> Str(<<"a">>)],
               [k \in {"a", "source"} |-> IF k = "a" THEN Str(<<"b">>) ELSE Nil] >>]

-----------------------------------------------------------------------------
\* The sequential program: one caller applying the package's operations

InitCaller ==
    /\ ctxts = {Background}
    /\ held = {1, 2}
    /\ last = NoLast
    /\ passed = {}
    /\ nwrites = 0

\* a thread's locals: the map being filled (heap, dst), the map being ranged
\* over (src) and the keys still to visit (todo), Merge's remaining arguments
\* (srcs), Set's error and remaining pairs, the maps this call allocated
\* (fresh), the value returned by the last finished function (ret), and where
\* the running function returns to (after)
IdleLoc ==
    [heap |-> "none", dst |-> 0, src |-> 0, todo |-> {}, srcs |-> <<>>, err |-> Nil,
     pairs |-> <<>>, fresh |-> {}, ret |-> Nil, after |-> "done"]

InitConcIdle ==
    /\ pc = <<"idle", "idle">>
    /\ call = <<NoCall, NoCall>>
    /\ loc = <<IdleLoc, IdleLoc>>
    /\ wlog = {}

\* a plain error, nothing decorated yet
Init ==
    /\ store = CallerStore
    /\ \E b \in Bases : errs = {b}
    /\ InitCaller
    /\ InitConcIdle

CanDecorate == Len(store.ctx) < MaxCtxMaps
CanKV == Len(store.kv) < MaxKVMaps
CanWrite == nwrites < MaxWrites
\* the maps the caller writes in place: those it handed to the package and
\* those the package returned to it
Writable == passed \cup (held \ {1, 2})

DoSet(e, kvs) ==
    /\ LET r == Set(store, e, kvs)
       IN /\ store' = r.st
          /\ errs' = errs \cup {r.ret}
          /\ last' = [op |-> "Set", err |-> e, inctx |-> CtxOf(store, e), kvs |-> kvs,
                      out |-> r.ret]
    /\ UNCHANGED <<ctxts, held, passed, nwrites>>
    /\ UNCHANGED concVars

DoMark(e, callers) ==
    /\ LET r == Mark(store, e, callers)
       IN /\ store' = r.st
          /\ errs' = errs \cup ({r.ret} \ {Nil})
          /\ last' = [op |-> "Mark", err |-> e, inctx |-> CtxOf(store, e),
                      callers |-> callers, out |-> r.ret]
    /\ UNCHANGED <<ctxts, held, passed, nwrites>>
    /\ UNCHANGED concVars

DoMarkSkip(e, skip, callers) ==
    /\ LET r == MarkSkip(store, e, skip, callers)
       IN /\ store' = r.st
          /\ errs' = errs \cup ({r.ret} \ {Nil})
          /\ last' = [op |-> "MarkSkip", err |-> e, inctx |-> CtxOf(store, e),
                      callers |-> callers, out |-> r.ret]
    /\ UNCHANGED <<ctxts, held, passed, nwrites>>
    /\ UNCHANGED concVars

DoErrWithKV(e, kvs, callers) ==
    /\ LET r == ErrWithKV(store, e, kvs, callers)
       IN /\ store' = r.st
          /\ errs' = errs \cup ({r.ret} \ {Nil})
          /\ last' = [op |-> "ErrWithKV", err |-> e, inctx |-> CtxOf(store, e),
                      kvs |-> Contents(store, kvs), callers |-> callers, out |-> r.ret]
    /\ passed' = passed \cup (IF e = Nil THEN {} ELSE Range(kvs))
    /\ UNCHANGED <<ctxts, held, nwrites>>
    /\ UNCHANGED concVars

DoErrKV(e) ==
    /\ LET r == ErrKV(store, e)
       IN /\ store' = r.st
          /\ held' = held \cup {r.ret}
          /\ last' = [op |-> "ErrKV", err |-> e, inctx |-> CtxOf(store, e), out |-> r.ret]
    /\ UNCHANGED <<errs, ctxts, passed, nwrites>>
    /\ UNCHANGED concVars

\* the caller writes one of the maps it holds in place: kv[k] = v, or delete(kv, k)
CallerWrite(id, k, w) ==
    /\ store' = [store EXCEPT !.kv[id] = IF w = DeleteKey THEN Delete(@, k) ELSE Put(@, k, w)]
    /\ nwrites' = nwrites + 1
    /\ last' = [op |-> "write", id |-> id, k |-> k, before |-> store.kv[id]]
    /\ UNCHANGED <<errs, ctxts, held, passed>>
    /\ UNCHANGED concVars

DoCtxWithKV(c, kvs) ==
    /\ LET r == CtxWithKV(store, c, kvs)
       IN /\ store' = r.st
          /\ ctxts' = ctxts \cup {r.ret}
          /\ last' = [op |-> "CtxWithKV", ctx |-> c, kvs |-> Contents(store, kvs), out |-> r.ret]
    /\ passed' = passed \cup Range(kvs)
    /\ UNCHANGED <<errs, held, nwrites>>
    /\ UNCHANGED concVars

DoCtxKV(c) ==
    /\ LET r == CtxKV(store, c)
       IN /\ store' = r.st
          /\ held' = held \cup {r.ret}
          /\ last' = [op |-> "CtxKV", ctx |-> c, out |-> r.ret]
    /\ UNCHANGED <<errs, ctxts, passed, nwrites>>
    /\ UNCHANGED concVars

\* Decoration chains: Set, Mark, MarkSkip and ErrWithKV applied in any order to
\* any error produced so far
Next ==
    \/ CanDecorate /\ \E e \in errs, kvs \in SinglePairs : DoSet(e, kvs)
    \/ CanDecorate /\ \E e \in errs : DoMark(e, <<MainFrame>>)
    \/ CanDecorate /\ \E e \in errs \cup {Nil}, skip \in 0..MaxSkip :
           DoMarkSkip(e, skip, <<UtilFrame, MainFrame>>)
    \/ CanDecorate /\ \E e \in errs \cup {Nil}, kvs \in UpToOne({1}) :
           DoErrWithKV(e, kvs, <<MainFrame>>)

Spec == Init /\ [][Next]_vars

\* Two plain errors and their decorations: Set and Mark on both
InitIs ==
    /\ store = CallerStore
    /\ errs = Bases
    /\ InitCaller
    /\ InitConcIdle

NextIs ==
    \/ CanDecorate /\ \E e \in errs, kvs \in SinglePairs : DoSet(e, kvs)
    \/ CanDecorate /\ \E e \in errs \cup {Nil}, callers \in UserStacks : DoMark(e, callers)

SpecIs == InitIs /\ [][NextIs]_vars

\* One Set call on every input: a plain error or an error decorated before
InitSet ==
    /\ \E pre \in PairSeqs(MaxPairs) :
          LET r == Set(CallerStore, PlainErr(1), pre)
          IN /\ store = r.st
             /\ errs = {PlainErr(1), r.ret}
    /\ InitCaller
    /\ InitConcIdle

NextSet == \E e \in errs, kvs \in PairSeqs(MaxPairs) : last = NoLast /\ DoSet(e, kvs)

SpecSet == InitSet /\ [][NextSet]_vars

\* The KV bridge onto errors: ErrWithKV and ErrKV on a plain error and on what
\* ErrWithKV returned, while the caller writes in place the maps it handed over
\* or got back
InitKV ==
    /\ store = CallerStore
    /\ errs = {PlainErr(1)}
    /\ InitCaller
    /\ InitConcIdle

NextKV ==
    \/ CanDecorate /\ CanKV /\ \E e \in errs \cup {Nil}, kvs \in UpToOne(held \cap {1, 2}) :
           DoErrWithKV(e, kvs, <<MainFrame>>)
    \/ CanKV /\ \E e \in errs \cup {Nil} : DoErrKV(e)
    \/ CanWrite /\ \E id \in Writable, k \in KVKeys, w \in KVVals \cup {DeleteKey} :
           CallerWrite(id, k, w)

SpecKV == InitKV /\ [][NextKV]_vars

\* One ErrWithKV call on every input: a plain error, an error decorated by Set
\* without a bag, and an error that already carries a bag
InitBag ==
    /\ \E pre \in ArgSeqs({1, 2}, MaxKVArgs), callers \in UserStacks :
          LET r == Set(CallerStore, PlainErr(1), <<key(0), Str(<<"a">>)>>)
              b == ErrWithKV(r.st, r.ret, pre, callers)
          IN /\ store = b.st
             /\ errs = {PlainErr(1), r.ret, b.ret}
    /\ InitCaller
    /\ InitConcIdle

NextBag ==
    \E e \in errs \cup {Nil}, kvs \in ArgSeqs({1, 2}, MaxKVArgs), callers \in UserStacks :
        last = NoLast /\ DoErrWithKV(e, kvs, callers)

SpecBag == InitBag /\ [][NextBag]_vars

\* The KV bridge onto contexts
NextCtx ==
    \/ CanKV /\ \E c \in ctxts, kvs \in ArgSeqs(held \cap {1, 2}, MaxKVArgs) : DoCtxWithKV(c, kvs)
    \/ CanKV /\ \E c \in ctxts : DoCtxKV(c)
    \/ CanWrite /\ \E id \in Writable, k \in KVKeys, w \in KVVals \cup {DeleteKey} :
           CallerWrite(id, k, w)

SpecCtx == Init /\ [][NextCtx]_vars

-----------------------------------------------------------------------------
\* Two threads, each running one call on values both hold.  Every statement
\* that reads or writes a map is a step of its own, and a range loop visits
\* the keys it found in any order.

Threads == {1, 2}

\* what both threads hold: the caller's maps 1 and 2, a plain error, and that
\* error decorated by Set and ErrWithKV (so it is marked and carries a bag)
SharedInit ==
    LET r == Set(CallerStore, PlainErr(1), <<key(0), Str(<<"a">>)>>)
    IN ErrWithKV(r.st, r.ret, <<1>>, <<MainFrame>>)
ConcStore == SharedInit.st
SharedErrs == {PlainErr(1), SharedInit.ret}

ConcCalls ==
    {[op |-> "Set", err |-> e, kvs |-> <<key(1), Str(<<"a">>), key(0), Str(<<"b">>)>>,
      callers |-> <<>>] : e \in SharedErrs}
    \cup {[op |-> "Merge", err |-> Nil, kvs |-> <<1, 2>>, callers |-> <<>>]}
    \cup {[op |-> "ErrWithKV", err |-> e, kvs |-> <<1, 2>>, callers |-> <<MainFrame>>] :
             e \in SharedErrs}

InitConc ==
    /\ store = ConcStore
    /\ errs = SharedErrs
    /\ InitCaller
    /\ pc = <<"start", "start">>
    /\ call \in [{1, 2} -> ConcCalls]
    /\ loc = <<IdleLoc, IdleLoc>>
    /\ wlog = {}

\* entering Merge(kvs) and Set(err, pairs) from the locals l, returning to after
EnterMerge(l, kvs, after) == [l EXCEPT !.srcs = kvs, !.after = after]
EnterSet(l, err, pairs, after) == [l EXCEPT !.err = err, !.pairs = pairs, !.after = after]

\* a write of key k of map id of the heap h by thread t; own says whether this
\* call of t allocated the map
Written(t, h, id) == [t |-> t, heap |-> h, id |-> id, own |-> <<h, id>> \in loc[t].fresh]

StepStart(t) ==
    /\ pc[t] = "start"
    /\ \/ /\ call[t].op = "Set"
          /\ loc' = [loc EXCEPT ![t] = EnterSet(@, call[t].err, call[t].kvs, "done")]
          /\ pc' = [pc EXCEPT ![t] = "set_alloc"]
       \/ /\ call[t].op = "Merge"
          /\ loc' = [loc EXCEPT ![t] = EnterMerge(@, call[t].kvs, "done")]
          /\ pc' = [pc EXCEPT ![t] = "merge_alloc"]
       \/ /\ call[t].op = "ErrWithKV"
          /\ IF call[t].err = Nil
             THEN /\ loc' = [loc EXCEPT ![t].ret = Nil]
                  /\ pc' = [pc EXCEPT ![t] = "done"]
             ELSE /\ loc' = [loc EXCEPT ![t] = EnterMerge(@, call[t].kvs, "ewk_existing")]
                  /\ pc' = [pc EXCEPT ![t] = "merge_alloc"]
    /\ UNCHANGED <<store, errs, ctxts, held, last, passed, nwrites, call, wlog>>

\* Merge: kv := make(KV, len(kvs))
StepMergeAlloc(t) ==
    /\ pc[t] = "merge_alloc"
    /\ LET a == AllocKV(store, EmptyMap)
       IN /\ store' = a.st
          /\ loc' = [loc EXCEPT ![t].heap = "kv", ![t].dst = a.ret,
                                ![t].fresh = @ \cup {<<"kv", a.ret>>}]
    /\ pc' = [pc EXCEPT ![t] = "merge_range"]
    /\ UNCHANGED <<errs, ctxts, held, last, passed, nwrites, call, wlog>>

\* Merge: for i := range kvs { for k, v := range kvs[i] ; and return kv
StepMergeRange(t) ==
    /\ pc[t] = "merge_range"
    /\ IF loc[t].srcs = <<>>
       THEN /\ loc' = [loc EXCEPT ![t].ret = KVRef(loc[t].dst)]
            /\ pc' = [pc EXCEPT ![t] = loc[t].after]
       ELSE /\ loc' = [loc EXCEPT ![t].src = Head(loc[t].srcs),
                                  ![t].todo = DOMAIN store.kv[Head(loc[t].srcs)],
                                  ![t].srcs = Tail(@)]
            /\ pc' = [pc EXCEPT ![t] = "merge_copy"]
    /\ UNCHANGED <<store, errs, ctxts, held, last, passed, nwrites, call, wlog>>

\* Merge: kv[k] = v
StepMergeCopy(t) ==
    /\ pc[t] = "merge_copy"
    /\ IF loc[t].todo = {}
       THEN /\ pc' = [pc EXCEPT ![t] = "merge_range"]
            /\ UNCHANGED <<store, loc, wlog>>
       ELSE \E k \in loc[t].todo :
               /\ store' = [store EXCEPT !.kv[loc[t].dst] =
                                Put(@, k, Lookup(store.kv[loc[t].src], k))]
               /\ loc' = [loc EXCEPT ![t].todo = @ \ {k}]
               /\ wlog' = wlog \cup {Written(t, "kv", loc[t].dst)}
               /\ pc' = pc
    /\ UNCHANGED <<errs, ctxts, held, last, passed, nwrites, call>>

\* ErrWithKV: existingKV := Get(err, kvKey(0)) ; if existingKV != nil { kv = Merge(existingKV.(KV), kv) }
StepExisting(t) ==
    /\ pc[t] = "ewk_existing"
    /\ LET existingKV == Get(store, call[t].err, kvKey(0))
       IN IF existingKV # Nil
          THEN /\ loc' = [loc EXCEPT ![t] =
                             EnterMerge(@, <<existingKV.id, loc[t].ret.id>>, "ewk_set")]
               /\ pc' = [pc EXCEPT ![t] = "merge_alloc"]
          ELSE /\ pc' = [pc EXCEPT ![t] = "ewk_set"]
               /\ loc' = loc
    /\ UNCHANGED <<store, errs, ctxts, held, last, passed, nwrites, call, wlog>>

\* ErrWithKV: Set(err, kvKey(0), kv)
StepEwkSet(t) ==
    /\ pc[t] = "ewk_set"
    /\ loc' = [loc EXCEPT ![t] = EnterSet(@, call[t].err, <<kvKey(0), loc[t].ret>>, "ewk_mark")]
    /\ pc' = [pc EXCEPT ![t] = "set_alloc"]
    /\ UNCHANGED <<store, errs, ctxts, held, last, passed, nwrites, call, wlog>>

\* a first step of Set that takes the decorated input's map as ec.ctx
StepSetAllocShared(t) ==
    /\ pc[t] = "set_alloc"
    /\ LET a == AllocCtx(store, EmptyMap)
           err == loc[t].err
       IN IF err.t = "errctx"
          THEN /\ store' = store
               /\ loc' = [loc EXCEPT ![t].heap = "ctx", ![t].dst = err.ctx,
                                     ![t].src = err.ctx, ![t].todo = {}]
          ELSE /\ store' = a.st
               /\ loc' = [loc EXCEPT ![t].heap = "ctx", ![t].dst = a.ret,
                                     ![t].fresh = @ \cup {<<"ctx", a.ret>>},
                                     ![t].src = 0, ![t].todo = {}]
    /\ pc' = [pc EXCEPT ![t] = "set_copy"]
    /\ UNCHANGED <<errs, ctxts, held, last, passed, nwrites, call, wlog>>

\* Set: ec := errctx{err: Base(err), ctx: map[interface{}]interface{}{}} ; and
\* the start of the range over ecinner.ctx
StepSetAlloc(t) ==
    /\ pc[t] = "set_alloc"
    /\ LET a == AllocCtx(store, EmptyMap)
           err == loc[t].err
       IN /\ store' = a.st
          /\ loc' = [loc EXCEPT ![t].heap = "ctx", ![t].dst = a.ret,
                                ![t].fresh = @ \cup {<<"ctx", a.ret>>},
                                ![t].src = IF err.t = "errctx" THEN err.ctx ELSE 0,
                                ![t].todo = IF err.t = "errctx"
                                            THEN DOMAIN store.ctx[err.ctx] ELSE {}]
    /\ pc' = [pc EXCEPT ![t] = "set_copy"]
    /\ UNCHANGED <<errs, ctxts, held, last, passed, nwrites, call, wlog>>

\* Set: ec.ctx[k] = v
StepSetCopy(t) ==
    /\ pc[t] = "set_copy"
    /\ IF loc[t].todo = {}
       THEN /\ pc' = [pc EXCEPT ![t] = "set_pairs"]
            /\ UNCHANGED <<store, loc, wlog>>
       ELSE \E k \in loc[t].todo :
               /\ store' = [store EXCEPT !.ctx[loc[t].dst] =
                                Put(@, k, Lookup(store.ctx[loc[t].src], k))]
               /\ loc' = [loc EXCEPT ![t].todo = @ \ {k}]
               /\ wlog' = wlog \cup {Written(t, "ctx", loc[t].dst)}
               /\ pc' = pc
    /\ UNCHANGED <<errs, ctxts, held, last, passed, nwrites, call>>

\* Set: ec.ctx[kvs[i]] = kvs[i+1] ; and return ec
StepSetPairs(t) ==
    /\ pc[t] = "set_pairs"
    /\ IF loc[t].pairs = <<>>
       THEN /\ loc' = [loc EXCEPT ![t].ret = ErrCtx(Base(loc[t].err), loc[t].dst)]
            /\ pc' = [pc EXCEPT ![t] = loc[t].after]
            /\ UNCHANGED <<store, wlog>>
       ELSE /\ store' = [store EXCEPT !.ctx[loc[t].dst] =
                             Put(@, loc[t].pairs[1], loc[t].pairs[2])]
            /\ loc' = [loc EXCEPT ![t].pairs = SubSeq(@, 3, Len(@))]
            /\ wlog' = wlog \cup {Written(t, "ctx", loc[t].dst)}
            /\ pc' = pc
    /\ UNCHANGED <<errs, ctxts, held, last, passed, nwrites, call>>

\* ErrWithKV: MarkSkip(..., 1), up to its call of Set
StepMark(t) ==
    /\ pc[t] = "ewk_mark"
    /\ LET err == loc[t].ret
           c == Caller(<<MarkSkipFrame, ErrWithKVFrame>> \o call[t].callers, 1 + 1)
       IN IF Get(store, err, sourceKey(0)) # Nil \/ ~c.ok
          THEN /\ pc' = [pc EXCEPT ![t] = "done"]
               /\ loc' = loc
          ELSE /\ loc' = [loc EXCEPT ![t] =
                             EnterSet(@, err, <<sourceKey(0),
                                                Str(Sprintf(PathBase(c.file), c.line))>>, "done")]
               /\ pc' = [pc EXCEPT ![t] = "set_alloc"]
    /\ UNCHANGED <<store, errs, ctxts, held, last, passed, nwrites, call, wlog>>

NextConc ==
    \E t \in Threads :
        \/ StepStart(t)
        \/ StepMergeAlloc(t)
        \/ StepMergeRange(t)
        \/ StepMergeCopy(t)
        \/ StepExisting(t)
        \/ StepEwkSet(t)
        \/ StepSetAlloc(t)
        \/ StepSetCopy(t)
        \/ StepSetPairs(t)
        \/ StepMark(t)

SpecConc == InitConc /\ [][NextConc]_vars

-----------------------------------------------------------------------------
\* What the claims speak of

AllCtxKeys == CallerKeys \cup {sourceKey(0), kvKey(0)}
Decorators == {"Set", "Mark", "MarkSkip", "ErrWithKV"}
IsDecorated(e) == e.t = "errctx"

\* Get(e, k), a KV read through to its content
Observed(st, e, k) == Deref(st, Get(st, e, k))

\* the value of the last pair of kvs whose key is k, and old when there is none
PairIndexes(kvs, k) == {i \in 1..(Len(kvs) \div 2) : kvs[2 * i - 1] = k}
Largest(S) == CHOOSE i \in S : \A j \in S : j <= i
Overlaid(old, kvs, k) ==
    IF PairIndexes(kvs, k) = {} THEN old ELSE kvs[2 * Largest(PairIndexes(kvs, k))]

\* the value of k in the rightmost of the maps ms that has k, and in old otherwise
Havers(ms, k) == {i \in 1..Len(ms) : k \in DOMAIN ms[i]}
Rightmost(old, ms, k) ==
    IF Havers(ms, k) = {} THEN old[k] ELSE ms[Largest(Havers(ms, k))][k]
OverlaidBag(old, ms) ==
    [k \in (DOMAIN old) \cup UNION {DOMAIN ms[i] : i \in 1..Len(ms)} |-> Rightmost(old, ms, k)]

\* the bag in a ctx content read by CtxOf, empty when there is none
BagIn(c) == IF kvKey(0) \in DOMAIN c THEN c[kvKey(0)].m ELSE EmptyMap

\* what ErrKV(e) returns, as a content
ErrKVView(st, e) == LET r == ErrKV(st, e) IN r.st.kv[r.ret]
\* what CtxKV(c) returns, as a content
CtxKVView(st, c) == LET r == CtxKV(st, c) IN r.st.kv[r.ret]

-----------------------------------------------------------------------------
\* C1: an error once produced never changes: whatever Set, Mark, MarkSkip or
\* ErrWithKV does next, to it, to its ancestors or to its siblings, Get(e, k)
\* returns after the step what it returned before, for every key (a bag is
\* compared by its content); and Get on a plain error is absent for every key.
C1_ErrorsImmutable ==
    [][\A e \in errs : \A k \in AllCtxKeys :
          /\ Observed(store', e, k) = Observed(store, e, k)
          /\ (~IsDecorated(e) => Get(store', e, k) = Nil)]_vars

\* e3 := Set(e2, ...) was just built from a decorated e2 that has a sibling e1
\* holding a key e2 lacks, and e3 holds a key e2 lacks
C1_Witness ==
    /\ last.op = "Set" /\ IsDecorated(last.err)
    /\ \E k \in CallerKeys : Get(store, last.out, k) # Nil /\ Get(store, last.err, k) = Nil
    /\ \E e1 \in errs : \E k \in CallerKeys :
          /\ IsDecorated(e1) /\ e1 # last.err /\ e1 # last.out
          /\ Get(store, e1, k) # Nil /\ Get(store, last.err, k) = Nil

\* C2: Get(Set(e, k1, v1, ..., kn, vn), k) is vi for the largest i with ki = k,
\* and Get(e, k) when no pair has the key k.
C2_SetOverlays ==
    last.op = "Set" =>
        \A k \in AllCtxKeys :
            Observed(store, last.out, k) = Overlaid(Lookup(last.inctx, k), last.kvs, k)

\* Set(e, k0, a, k0, b) on a decorated e that holds k1
C2_Witness ==
    /\ last.op = "Set" /\ IsDecorated(last.err)
    /\ last.kvs = <<key(0), Str(<<"a">>), key(0), Str(<<"b">>)>>
    /\ key(1) \in DOMAIN last.inctx
    /\ key(0) \in DOMAIN last.inctx

\* C3: every decorated error wraps the plain error it was built from directly,
\* so Base gives that plain error, Base is idempotent and the message is the
\* plain error's message.
C3_Flattened ==
    \A d \in errs : \A b \in errs :
        ~IsDecorated(b) =>
            /\ IsDecorated(d) => Unwrap(d) = b
            /\ Base(d) = b
            /\ Base(Base(d)) = Base(d)
            /\ Message(d) = <<Msg[b.id]>>

\* ErrWithKV has just decorated an error that Mark and Set had decorated before
C3_Witness ==
    /\ last.op = "ErrWithKV" /\ IsDecorated(last.err) /\ IsDecorated(last.out)
    /\ sourceKey(0) \in DOMAIN last.inctx
    /\ \E k \in CallerKeys : k \in DOMAIN last.inctx
    /\ last.out.ctx >= 3

\* C4: for a decorated d and any candidate c, Is(d, c) holds exactly when c and
\* d have the same base.
C4_IsSameBase ==
    \A d \in errs : \A c \in errs \cup {Nil} :
        IsDecorated(d) => (Is(d, c) <=> Base(c) = Base(d))

\* two decorations of one base, one built from the other, and a decoration of
\* the other base
C4_Witness ==
    \E d1 \in errs, d2 \in errs, d3 \in errs :
        /\ IsDecorated(d1) /\ IsDecorated(d2) /\ IsDecorated(d3)
        /\ d1 # d2 /\ Base(d1) = Base(d2) /\ Base(d3) # Base(d1)
        /\ last.op = "Set" /\ last.err = d1 /\ last.out = d2

\* C5: an operation applied to an error that carries a recorded line L returns
\* an error whose Line is (L, found), and Mark and MarkSkip return their input.
C5_FirstMarkWins ==
    (last.op \in Decorators /\ sourceKey(0) \in DOMAIN last.inctx) =>
        /\ Line(store, last.out) = [s |-> last.inctx[sourceKey(0)].s, ok |-> TRUE]
        /\ last.op \in {"Mark", "MarkSkip"} => last.out = last.err

\* Mark called from main.go:10 on an error marked at util.go:20
C5_Witness ==
    /\ last.op = "Mark" /\ last.callers = <<MainFrame>>
    /\ sourceKey(0) \in DOMAIN last.inctx
    /\ Line(store, last.out) = [s |-> <<"util.go", ":", "20">>, ok |-> TRUE]

\* C6: an in-place write by the caller, to a map it handed to ErrWithKV or to
\* any other map it holds, leaves ErrKV of every error unchanged; so does every
\* other step, so an error derived later is built from an unchanged bag.
C6_ArgumentsCopied ==
    [][\A e \in errs : ErrKVView(store', e) = ErrKVView(store, e)]_vars

\* the caller has just changed a map that is the only argument an ErrWithKV
\* call was given, and the bag built from it still has the old content
C6_Witness ==
    /\ last.op = "write" /\ last.id \in passed
    /\ store.kv[last.id] # last.before
    /\ \E e \in errs : IsDecorated(e) /\ BagIn(CtxOf(store, e)) = last.before

\* C7: the bag of ErrWithKV(e, kv1, ..., kvn) is e's bag overlaid by kv1, then
\* kv2, ..., then kvn; e is unchanged, and every other key of e is on the result.
C7_BagMerged ==
    (last.op = "ErrWithKV" /\ last.err # Nil) =>
        /\ BagIn(CtxOf(store, last.out)) = OverlaidBag(BagIn(last.inctx), last.kvs)
        /\ CtxOf(store, last.err) = last.inctx
        /\ \A k \in (DOMAIN last.inctx) \ {kvKey(0)} :
               Observed(store, last.out, k) = last.inctx[k]

\* ErrWithKV(e, kv1, kv2) on an e that has a bag, a mark and a caller key,
\* with "a" in the bag and in both arguments, each with another value
C7_Witness ==
    /\ last.op = "ErrWithKV" /\ Len(last.kvs) = 2
    /\ {kvKey(0), sourceKey(0), key(0)} \subseteq DOMAIN last.inctx
    /\ "a" \in DOMAIN BagIn(last.inctx)
    /\ "a" \in DOMAIN last.kvs[1] /\ "a" \in DOMAIN last.kvs[2]
    /\ last.kvs[1]["a"] # last.kvs[2]["a"]
    /\ BagIn(last.inctx)["a"] # last.kvs[2]["a"]

\* C8: when the bag of a marked error defines "source", with any value, nil
\* included, ErrKV returns the bag's value under "source".
C8_UserSourceWins ==
    (last.op = "ErrKV" /\ "source" \in DOMAIN BagIn(last.inctx)) =>
        /\ "source" \in DOMAIN store.kv[last.out]
        /\ store.kv[last.out]["source"] = BagIn(last.inctx)["source"]

\* C9: a write by the caller to a map it holds, the map CtxKV returned
\* included, leaves what CtxKV returns for every context unchanged.
C9_CtxKVReturnsCopy ==
    [][last'.op = "write" =>
          \A c \in ctxts : CtxKVView(store', c) = CtxKVView(store, c)]_vars

\* C10: every write of a thread goes to a map its own call allocated, no
\* thread ranges over a map another thread is filling, and a finished call
\* returned what the same call returns when it runs alone.
ResultView(st, v) ==
    IF v.t = "KV" THEN [t |-> "KV", m |-> st.kv[v.id]]
    ELSE IF v.t = "errctx" THEN [t |-> "errctx", err |-> v.err, ctx |-> CtxOf(st, v)]
    ELSE v
Alone(c) ==
    LET r == IF c.op = "Set" THEN Set(ConcStore, c.err, c.kvs)
             ELSE IF c.op = "Merge"
             THEN LET m == Merge(ConcStore, c.kvs) IN [st |-> m.st, ret |-> KVRef(m.ret)]
             ELSE ErrWithKV(ConcStore, c.err, c.kvs, c.callers)
    IN ResultView(r.st, r.ret)
Filling(t) == pc[t] \in {"merge_range", "merge_copy", "set_copy", "set_pairs"}
C10_RaceFree ==
    /\ \A w \in wlog : w.own
    /\ \A t \in Threads, u \in Threads :
          (t # u /\ Filling(t) /\ pc[u] \in {"merge_copy", "set_copy"} /\ loc[t].heap = loc[u].heap)
              => loc[u].src # loc[t].dst
    /\ \A t \in Threads : pc[t] = "done" => ResultView(store, loc[t].ret) = Alone(call[t])

\* both threads decorate the same decorated error, one by Set and one by
\* ErrWithKV, and each is in the middle of copying its map
C10_Witness ==
    /\ call[1].op = "Set" /\ call[2].op = "ErrWithKV"
    /\ call[1].err = call[2].err /\ IsDecorated(call[1].err)
    /\ pc[1] = "set_copy" /\ pc[2] = "set_copy"
    /\ loc[1].todo # {} /\ loc[2].todo # {}
    /\ \E w \in wlog : w.t = 1
    /\ \E w \in wlog : w.t = 2 /\ w.heap = "ctx"

====
